---- MODULE Spec2Model ----
(***************************************************************************)
(* Kamstrup 403 integration: the KMP client (kamstrup.py) and the polling  *)
(* coordinator (coordinator.py).                                           *)
(*                                                                         *)
(* The poll cycle _async_update_data is split at its await points: one     *)
(* step writes the request of a chunk (read_registers up to _send), the    *)
(* next one resolves the exchange (_receive, the record walk, the merge    *)
(* into the cycle's dict and, after the last chunk, the total-failure      *)
(* decision and the return).  register_command / unregister_command are    *)
(* synchronous and may run between any two such steps.  The step that      *)
(* starts a cycle is separate from the first write; what can run between   *)
(* them changes nothing the first write reads (the chunks are sliced       *)
(* already), so this adds no behaviour.                                    *)
(*                                                                         *)
(* The serial line is modelled frame by frame: the reader's buffer `rx`    *)
(* holds the frames the meter has written and the client has not read, a   *)
(* frame being its logical payload together with whether its bytes pass    *)
(* the CRC check of _receive.                                              *)
(*                                                                         *)
(* Spec is that frame-level model.  SpecWire runs the same cycle with the  *)
(* line modelled byte by byte (`wire`), through _send and _receive with    *)
(* the CRC and the escaping computed.  SpecChunks runs cycles over the     *)
(* registries of the first n sensor entities.  SpecFlip, SpecCodec and     *)
(* SpecDecode apply the decoding of a frame, the checksum and the byte     *)
(* stuffing, and _decode_value to inputs drawn from bounded sets; `op`,    *)
(* `input` and `output` record what was applied to what.  SpecWalk does    *)
(* the same for the record walk of read_registers.  SpecLink calls         *)
(* connect, disconnect, _write and _read_byte one after the other.         *)
(* SpecReceive and SpecReceiveLive run the loop of _receive one            *)
(* _read_byte at a time (`rpc`, `buf`).  SpecEntities adds and removes     *)
(* sensor entities (`entities`) while the coordinator polls.               *)
(***************************************************************************)
EXTENDS Integers, Sequences, FiniteSets, TLC

VARIABLES
    _commands,        \* KamstrupCoordinator._commands
    _reader,          \* Kamstrup._reader
    _writer,          \* Kamstrup._writer
    pc,               \* position of _async_update_data: "idle", "send", "recv"
    chunks,           \* local `chunks` of the running cycle
    idx,              \* index (1-based) of the chunk being read
    data,             \* local `data` of the running cycle
    failed_counter,   \* local `failed_counter` of the running cycle
    coordinator_data, \* DataUpdateCoordinator.data: the published Snapshot
    last_result,      \* how the last cycle ended: "none", "ok", "UpdateFailed"
    last_exc,         \* the exception read_registers raised in this cycle
    notifications,    \* persistent notifications created by this cycle
    deviceUp,         \* the serial device can be opened and used
    handleBroken,     \* the open handle has met an I/O failure
    pending,          \* the request the meter is working on (at most one)
    rx,               \* frames buffered in the StreamReader, oldest first
    cycle,            \* number of the running (or last) poll cycle
    startCommands,    \* history: _commands when the cycle started
    requested,        \* history: RegisterIds written in requests of the cycle
    responses,        \* history: exchanges of the cycle that got a frame
    snapshotCycle,    \* history: the cycle that published coordinator_data
    inflight,         \* history: exchanges written and not yet resolved
    wire,             \* bytes buffered in the StreamReader, oldest first
    op,               \* history: the function of the client applied last
    input,            \* history: what it was applied to
    output,           \* history: what it returned
    rpc,              \* position of _receive: "idle", "read", "done"
    buf,              \* local `buf` of the running _receive
    entities          \* the sensor entities added to hass

vars == <<_commands, _reader, _writer, pc, chunks, idx, data, failed_counter,
          coordinator_data, last_result, last_exc, notifications, deviceUp,
          handleBroken, pending, rx, cycle, startCommands, requested,
          responses, snapshotCycle, inflight, wire, op, input, output,
          rpc, buf, entities>>

----------------------------------------------------------------------------
(* Bounds of the model *)

MaxCycles == 2

----------------------------------------------------------------------------
(* Values *)

\* a Python float, kept exact as numerator / denominator (den > 0)
Float(num, den) == <<num, den>>

\* None where a float is expected, and None where a unit is expected
NoneValue == <<0, 0>>
NoneUnit == <<"None", 0>>

\* None where bytes are expected, and bytes
NoneBytes == [none |-> TRUE, bytes |-> <<>>]
Bytes(b) == [none |-> FALSE, bytes |-> b]

EmptyDict == <<>>

Min(a, b) == IF a < b THEN a ELSE b

Range(s) == {s[i] : i \in 1..Len(s)}

Drop(s, n) == SubSeq(s, n + 1, Len(s))

RECURSIVE Pow10(_)
Pow10(n) == IF n = 0 THEN 1 ELSE 10 * Pow10(n - 1)

----------------------------------------------------------------------------
(* const.py *)

MULTIPLE_REGISTERS_MAX == 8

\* unit bytes the UNITS table knows
UNITS == 1 .. 57

UnitTag(b) == IF b \in UNITS THEN <<"unit", b>> ELSE NoneUnit

----------------------------------------------------------------------------
(* kamstrup.py: the request, the value decoder and the record walk *)

CMD == 63          \* 0x3F
SUBCMD == 16       \* 0x10
READ_MAX == 8      \* registers[:8]

ExcNone == "None"
SerialException == "SerialException"
IndexError == "IndexError"

\* variant: the request keeps one register fewer than a chunk holds
Truncate_OneShort(registers) ==
    SubSeq(registers, 1, Min(READ_MAX - 1, Len(registers)))

\* registers = registers[:8]
Truncate(registers) == SubSeq(registers, 1, Min(READ_MAX, Len(registers)))

RECURSIVE RegisterBytes(_)
RegisterBytes(registers) ==
    IF registers = <<>> THEN <<>>
    ELSE <<Head(registers) \div 256, Head(registers) % 256>>
         \o RegisterBytes(Tail(registers))

\* req = [0x3F, 0x10, len(registers)] + [r >> 8, r & 0xFF for r in registers]
Request(registers) ==
    <<CMD, SUBCMD, Len(registers)>> \o RegisterBytes(registers)

\* value = value * 256 + data[i + 5] for i in range(data[3])
RECURSIVE Mantissa(_, _, _)
Mantissa(d, i, value) ==
    IF i >= d[4] THEN value
    ELSE Mantissa(d, i + 1, value * 256 + d[i + 6])

\* _decode_value indexes data[i + 5] past the end: IndexError
DecodeRaises(d) == Len(d) < 5 + d[4]

\* variant: the exponent is negated when bit 6 or bit 7 of data[4] is set
DecodeValue_EitherBitNegatesExponent(d) ==
    LET unit == UnitTag(d[3])
        value == Mantissa(d, 0, 0)
        mag == d[5] % 64
        expNeg == d[5] \div 64 >= 1
        sign == IF d[5] \div 128 = 1 THEN -1 ELSE 1
    IN  IF expNeg /\ mag > 0
        THEN <<Float(sign * value, Pow10(mag)), unit>>
        ELSE <<Float(sign * value * Pow10(mag), 1), unit>>

\* _decode_value(data): (value * exp, unit); d is data with d[k+1] = data[k]
DecodeValue(d) ==
    LET unit == UnitTag(d[3])
        value == Mantissa(d, 0, 0)
        mag == d[5] % 64                                \* data[4] & 0x3F
        expNeg == (d[5] \div 64) % 2 = 1                \* data[4] & 0x40
        sign == IF d[5] \div 128 = 1 THEN -1 ELSE 1     \* data[4] & 0x80
    IN  IF expNeg /\ mag > 0
        THEN <<Float(sign * value, Pow10(mag)), unit>>
        ELSE <<Float(sign * value * Pow10(mag), 1), unit>>

PutItem(dict, key, val) ==
    [k \in DOMAIN dict \cup {key} |-> IF k = key THEN val ELSE dict[k]]

\* variant: the record at hand is given to the register at hand whatever
\* its id bytes
RECURSIVE Walk_NoIdTest(_, _, _)
Walk_NoIdTest(registers, remaining, result) ==
    IF registers = <<>> \/ Len(remaining) < 6
    THEN [exc |-> ExcNone, values |-> result]
    ELSE IF DecodeRaises(remaining)
         THEN [exc |-> IndexError, values |-> EmptyDict]
         ELSE Walk_NoIdTest(Tail(registers),
                            Drop(remaining, 5 + remaining[4]),
                            PutItem(result, Head(registers),
                                    DecodeValue(remaining)))

\* the loop `for reg in registers` of read_registers over `remaining`
RECURSIVE Walk(_, _, _)
Walk(registers, remaining, result) ==
    IF registers = <<>> \/ Len(remaining) < 6
    THEN [exc |-> ExcNone, values |-> result]
    ELSE LET reg == Head(registers) IN
         IF remaining[1] = reg \div 256 /\ remaining[2] = reg % 256
         THEN IF DecodeRaises(remaining)
              THEN [exc |-> IndexError, values |-> EmptyDict]
              ELSE Walk(Tail(registers),
                        Drop(remaining, 5 + remaining[4]),
                        PutItem(result, reg, DecodeValue(remaining)))
         ELSE Walk(Tail(registers), remaining,
                   PutItem(result, reg, <<NoneValue, NoneUnit>>))

\* a frame of the reader's buffer
Frame(payload, crcOk) == [payload |-> payload, crcOk |-> crcOk]

\* _receive on one buffered frame: the payload, or None on a CRC error
Receive(frame) == IF frame.crcOk THEN Bytes(frame.payload) ELSE NoneBytes

\* variant: no response and a wrong echo are raised as errors
ParseResponse_Raises(registers, received) ==
    IF received.none \/ Len(received.bytes) < 3
       \/ received.bytes[1] # CMD \/ received.bytes[2] # SUBCMD
    THEN [exc |-> "ValueError", values |-> EmptyDict]
    ELSE Walk(registers, Drop(received.bytes, 2), EmptyDict)

\* read_registers after _receive: `received` is None or the payload
ParseResponse(registers, received) ==
    IF received.none \/ Len(received.bytes) < 3
       \/ received.bytes[1] # CMD \/ received.bytes[2] # SUBCMD
    THEN [exc |-> ExcNone, values |-> EmptyDict]
    ELSE Walk(registers, Drop(received.bytes, 2), EmptyDict)

----------------------------------------------------------------------------
(* const.py and kamstrup.py: the frame codec, byte by byte *)

\* the reserved bytes _send escapes
ESCAPES == {6, 13, 27, 64, 128}

POLY == 4129       \* 0x1021

\* a ^ b on naturals
RECURSIVE Xor(_, _)
Xor(a, b) ==
    IF a = 0 THEN b
    ELSE IF b = 0 THEN a
    ELSE ((a + b) % 2) + 2 * Xor(a \div 2, b \div 2)

\* the `while mask > 0` loop of _crc for one byte
RECURSIVE CrcByte(_, _, _)
CrcByte(reg, byte, mask) ==
    IF mask = 0 THEN reg
    ELSE LET shifted == reg * 2 + ((byte \div mask) % 2) \* reg <<= 1; reg |= 1
         IN  IF (shifted \div 65536) % 2 = 1             \* reg & 0x10000
             THEN CrcByte(Xor(shifted % 65536, POLY), byte, mask \div 2)
             ELSE CrcByte(shifted, byte, mask \div 2)

\* the `for byte in message` loop of _crc (reg is never negative: the
\* comparison has TLC evaluate reg byte by byte, not after the last byte)
RECURSIVE CrcFrom(_, _)
CrcFrom(reg, message) ==
    IF message = <<>> \/ reg < 0 THEN reg
    ELSE CrcFrom(CrcByte(reg, Head(message), 128), Tail(message))

\* variant: only the low byte of the register is returned
_crc_LowByte(message) == CrcFrom(0, message) % 256

_crc(message) == CrcFrom(0, message)

\* variant: the checksum is written low byte first
Checksummed_LowFirst(message) ==
    LET crc == _crc(message \o <<0, 0>>)
    IN  message \o <<crc % 256, crc \div 256>>

\* _send, lines 75-77: msg = message + 00 00; msg[-2], msg[-1] = crc >> 8,
\* crc & 0xFF
Checksummed(message) ==
    LET crc == _crc(message \o <<0, 0>>)
    IN  message \o <<crc \div 256, crc % 256>>

\* variant: a reserved byte follows the escape marker as it is
RECURSIVE Stuff_NoXor(_)
Stuff_NoXor(msg) ==
    IF msg = <<>> THEN <<>>
    ELSE (IF Head(msg) \in ESCAPES
          THEN <<27, Head(msg)>>
          ELSE <<Head(msg)>>) \o Stuff_NoXor(Tail(msg))

\* _send, lines 80-84: the loop `for b in msg`
RECURSIVE Stuff(_)
Stuff(msg) ==
    IF msg = <<>> THEN <<>>
    ELSE (IF Head(msg) \in ESCAPES
          THEN <<27, Xor(Head(msg), 255)>>
          ELSE <<Head(msg)>>) \o Stuff(Tail(msg))

\* _send(message): the bytes handed to _write
_send(message) == <<128>> \o Stuff(Checksummed(message)) \o <<13>>

\* _receive, lines 89-100: bytes are read until a frame from 0x40 to 0x0D is
\* buffered, or until _read_byte returns None because `stream`, the bytes that
\* arrive without a gap longer than the timeout, is used up.  i bytes have
\* been read; buf is stream[start .. i], from the last 0x40 read (start = 0:
\* buf is None)
RECURSIVE ReadFrame(_, _, _)
ReadFrame(stream, i, start) ==
    IF i >= Len(stream)
    THEN [none |-> TRUE, buf |-> <<>>, rest |-> <<>>]
    ELSE LET b == stream[i + 1]
             from == IF b = 64 THEN i + 1 ELSE start
         IN  IF from > 0 /\ b = 13
             THEN [none |-> FALSE, buf |-> SubSeq(stream, from, i + 1),
                   rest |-> Drop(stream, i + 1)]
             ELSE ReadFrame(stream, i + 1, from)

\* _receive, lines 102-110: what is appended to `result` from index i of
\* the closed buffer `frame` on, i counted from 0
RECURSIVE Unescape(_, _)
Unescape(frame, i) ==
    IF i >= Len(frame) - 1 THEN <<>>
    ELSE IF frame[i + 1] = 27
         THEN <<Xor(frame[i + 2], 255)>> \o Unescape(frame, i + 2)
         ELSE <<frame[i + 1]>> \o Unescape(frame, i + 1)

\* result[:-2]
DropLast2(result) ==
    IF Len(result) <= 2 THEN <<>> ELSE SubSeq(result, 1, Len(result) - 2)

\* variant: the frame is handed on whatever its checksum
ReceiveFrame_NoCrc(frame) == Bytes(DropLast2(Unescape(frame, 1)))

\* _receive, lines 102-115, on the closed buffer
ReceiveFrame(frame) ==
    LET result == Unescape(frame, 1)
    IN  IF _crc(result) # 0 THEN NoneBytes ELSE Bytes(DropLast2(result))

\* _receive() on the bytes of `stream`: what it returns and what it leaves
\* in the reader
_receive(stream) ==
    LET f == ReadFrame(stream, 0, 0)
    IN  [received |-> IF f.none THEN NoneBytes ELSE ReceiveFrame(f.buf),
         rest |-> f.rest]

----------------------------------------------------------------------------
(* sensor.py: the entities and the registers they register *)

\* the `register` of each description of SENSORS, in order
SENSORS ==
    <<60, 63, 80, 86, 87, 89, 74, 68, 141, 139, 145, 143, 149, 150, 126,
      124, 130, 128, 146, 147, 97, 110, 99, 113, 1001, 1004, 140, 138, 144,
      142, 125, 123, 129, 127>>

HEAT_ENERGY_REGISTER == 60

----------------------------------------------------------------------------
(* coordinator.py: the registry *)

Contains(seq, x) == \E i \in 1..Len(seq) : seq[i] = x

\* list.remove(x): drops the first occurrence
RECURSIVE Remove(_, _)
Remove(seq, x) ==
    IF seq = <<>> THEN <<>>
    ELSE IF Head(seq) = x THEN Tail(seq)
    ELSE <<Head(seq)>> \o Remove(Tail(seq), x)

\* variant: the command is appended whether it is registered or not
register_command_Always(commands, command) == Append(commands, command)

\* register_command(command) applied to the list `commands`
register_command(commands, command) ==
    IF ~Contains(commands, command) THEN Append(commands, command)
    ELSE commands

\* unregister_command(command) applied to the list `commands`
unregister_command(commands, command) ==
    IF Contains(commands, command) THEN Remove(commands, command)
    ELSE commands

\* async_setup_entry of the sensor platform: the enabled entities are added
\* in the order of SENSORS, the gas sensor last, each registering its register
RECURSIVE AddEntities(_, _, _)
AddEntities(commands, registers, enabled) ==
    IF registers = <<>> THEN commands
    ELSE AddEntities(
            IF Head(registers) \in enabled
            THEN register_command(commands, Head(registers))
            ELSE commands,
            Tail(registers), enabled)

\* the registry once the platform has added the `enabled` entities
Registry(enabled) ==
    AddEntities(<<>>, SENSORS \o <<HEAT_ENERGY_REGISTER>>, enabled)

\* variant: the registry is sliced into chunks of nine
RECURSIVE Chunks_OfNine(_)
Chunks_OfNine(commands) ==
    IF commands = <<>> THEN <<>>
    ELSE <<SubSeq(commands, 1, Min(MULTIPLE_REGISTERS_MAX + 1, Len(commands)))>>
         \o Chunks_OfNine(Drop(commands, Min(MULTIPLE_REGISTERS_MAX + 1,
                                             Len(commands))))

\* chunks = [commands[i : i + MAX] for i in range(0, len(commands), MAX)]
RECURSIVE Chunks(_)
Chunks(commands) ==
    IF commands = <<>> THEN <<>>
    ELSE <<SubSeq(commands, 1, Min(MULTIPLE_REGISTERS_MAX, Len(commands)))>>
         \o Chunks(Drop(commands, Min(MULTIPLE_REGISTERS_MAX, Len(commands))))

Entry(value, unit) == [value |-> value, unit |-> unit]

\* variant: a register without a value is counted and gets no entry
MergeReg_NoEntry(st, reg, values) ==
    IF reg \in DOMAIN values
    THEN [data |-> PutItem(st.data, reg,
                           Entry(values[reg][1], values[reg][2])),
          failed |-> st.failed]
    ELSE [data |-> st.data, failed |-> st.failed + 1]

\* one pass of `for reg in chunk`: st = [data, failed]
MergeReg(st, reg, values) ==
    IF reg \in DOMAIN values
    THEN [data |-> PutItem(st.data, reg,
                           Entry(values[reg][1], values[reg][2])),
          failed |-> st.failed]
    ELSE [data |-> PutItem(st.data, reg, Entry(NoneValue, NoneUnit)),
          failed |-> st.failed + 1]

RECURSIVE MergeChunk(_, _, _)
MergeChunk(st, chunk, values) ==
    IF chunk = <<>> THEN st
    ELSE MergeChunk(MergeReg(st, Head(chunk), values), Tail(chunk), values)

\* lines 84-97: `values` is [none, dict]
Merge(st, chunk, values) ==
    IF values.none
    THEN [data |-> st.data, failed |-> st.failed + Len(chunk)]
    ELSE MergeChunk(st, chunk, values.dict)

\* read_registers returns a dict on every path, never None
ReadResult(dict) == [none |-> FALSE, dict |-> dict]

\* `values` when read_registers raised and nothing was assigned
NoneResult == [none |-> TRUE, dict |-> EmptyDict]

\* if failed_counter == len(self._commands)
TotalFailure(failed, commands) == failed = Len(commands)

\* variant: a serial error is taken as a failed chunk and the loop goes on
Aborts_SerialSwallowed(exc) == exc # ExcNone /\ exc # SerialException

\* both except clauses around read_registers raise UpdateFailed
Aborts(exc) == exc # ExcNone

----------------------------------------------------------------------------
(* The meter and the line: the environment of the client *)

\* the RegisterIds of a request payload, as the meter reads them
RECURSIVE RequestIdsFrom(_, _)
RequestIdsFrom(req, n) ==
    IF n = 0 \/ Len(req) < 2 THEN <<>>
    ELSE <<req[1] * 256 + req[2]>> \o RequestIdsFrom(Drop(req, 2), n - 1)

RequestIds(req) == RequestIdsFrom(Drop(req, 3), req[3])

\* one record [id_hi][id_lo][unit][length][exponent][mantissa]: the value is
\* the number of the cycle whose request the meter answers
\* (unit byte 2, one mantissa byte, exponent byte 0)
Record(id, tag) == <<id \div 256, id % 256, 2, 1, 0, tag>>

RECURSIVE Records(_, _)
Records(ids, tag) ==
    IF ids = <<>> THEN <<>>
    ELSE Record(Head(ids), tag) \o Records(Tail(ids), tag)

ResponseKinds == {"full", "omit_first", "bad_length", "bad_header", "crc_error"}

\* what the meter (or the line) makes of a request
Response(kind, ids, tag) ==
    CASE kind = "full" ->
            Frame(<<CMD, SUBCMD>> \o Records(ids, tag), TRUE)
      [] kind = "omit_first" ->
            Frame(<<CMD, SUBCMD>> \o Records(Tail(ids), tag), TRUE)
      [] kind = "bad_length" ->
            \* the record declares two mantissa bytes and carries one
            Frame(<<CMD, SUBCMD, Head(ids) \div 256, Head(ids) % 256,
                    2, 2, 0, tag>>, TRUE)
      [] kind = "bad_header" ->
            Frame(<<CMD, SUBCMD + 1, 0>>, TRUE)
      [] kind = "crc_error" ->
            Frame(<<CMD, SUBCMD>> \o Records(ids, tag), FALSE)

----------------------------------------------------------------------------
(* Initial state *)

\* which entities the platform adds at setup
EnabledChoices ==
    { {},
      {60, 68},
      {60, 63, 80, 86, 87, 89, 74, 68, 141} }

\* commands registered or unregistered while the integration runs
CommandInputs == {60}

\* the state after the setup, the registry being `commands`
CycleInit(commands) ==
    /\ _commands = commands
    /\ _reader = "None"
    /\ _writer = "None"
    /\ pc = "idle"
    /\ chunks = <<>>
    /\ idx = 0
    /\ data = EmptyDict
    /\ failed_counter = 0
    /\ coordinator_data = EmptyDict
    /\ last_result = "none"
    /\ last_exc = ExcNone
    /\ notifications = 0
    /\ deviceUp = TRUE
    /\ handleBroken = FALSE
    /\ pending = <<>>
    /\ rx = <<>>
    /\ cycle = 0
    /\ startCommands = <<>>
    /\ requested = <<>>
    /\ responses = 0
    /\ snapshotCycle = 0
    /\ inflight = 0
    /\ wire = <<>>
    /\ rpc = "idle"
    /\ buf = NoneBytes
    /\ entities = {}

Init ==
    /\ \E enabled \in EnabledChoices : CycleInit(Registry(enabled))
    /\ op = "none"
    /\ input = <<>>
    /\ output = <<>>

----------------------------------------------------------------------------
(* Actions *)

cycleVars == <<pc, chunks, idx, data, failed_counter, coordinator_data,
               last_result, last_exc, notifications, cycle, startCommands,
               requested, responses, snapshotCycle, inflight>>

callVars == <<op, input, output>>

receiveVars == <<rpc, buf>>

\* register_command(command), from an entity's async_added_to_hass
RegisterCommand(command) ==
    /\ _commands' = register_command(_commands, command)
    /\ UNCHANGED <<_reader, _writer, deviceUp, handleBroken, pending, rx>>
    /\ UNCHANGED cycleVars
    /\ UNCHANGED <<wire, op, input, output, rpc, buf, entities>>

\* unregister_command(command), from an entity's async_will_remove_from_hass
UnregisterCommand(command) ==
    /\ _commands' = unregister_command(_commands, command)
    /\ UNCHANGED <<_reader, _writer, deviceUp, handleBroken, pending, rx>>
    /\ UNCHANGED cycleVars
    /\ UNCHANGED <<wire, op, input, output, rpc, buf, entities>>

\* Kamstrup.connect() called by the setup, before the first refresh
Connect ==
    /\ pc = "idle"
    /\ cycle = 0
    /\ _reader = "None" \/ _writer = "None"
    /\ deviceUp
    /\ _reader' = "StreamReader"
    /\ _writer' = "StreamWriter"
    /\ handleBroken' = FALSE
    /\ rx' = <<>>
    /\ UNCHANGED <<_commands, deviceUp, pending>>
    /\ UNCHANGED cycleVars
    /\ wire' = <<>>
    /\ UNCHANGED callVars
    /\ UNCHANGED <<receiveVars, entities>>

\* variant: no early return for an empty registry; the loop runs over no
\* chunk and the total-failure test compares 0 with len(self._commands)
StartCycle_NoEarlyReturn ==
    /\ pc = "idle"
    /\ cycle < MaxCycles
    /\ cycle' = cycle + 1
    /\ startCommands' = _commands
    /\ requested' = <<>>
    /\ responses' = 0
    /\ last_exc' = ExcNone
    /\ inflight' = 0
    /\ failed_counter' = 0
    /\ IF _commands = <<>>
       THEN /\ notifications' = IF TotalFailure(0, _commands) THEN 1 ELSE 0
            /\ coordinator_data' = EmptyDict
            /\ snapshotCycle' = cycle + 1
            /\ last_result' = "ok"
            /\ UNCHANGED <<pc, chunks, idx, data>>
       ELSE /\ notifications' = 0
            /\ data' = EmptyDict
            /\ chunks' = Chunks(_commands)
            /\ idx' = 1
            /\ pc' = "send"
            /\ UNCHANGED <<coordinator_data, snapshotCycle, last_result>>
    /\ UNCHANGED <<_commands, _reader, _writer, deviceUp, handleBroken,
                   pending, rx>>
    /\ UNCHANGED <<wire, op, input, output, rpc, buf, entities>>

\* _async_update_data up to its first await: the early return for an empty
\* registry, else the chunks
StartCycle ==
    /\ pc = "idle"
    /\ cycle < MaxCycles
    /\ cycle' = cycle + 1
    /\ startCommands' = _commands
    /\ requested' = <<>>
    /\ responses' = 0
    /\ last_exc' = ExcNone
    /\ notifications' = 0
    /\ inflight' = 0
    /\ IF _commands = <<>>
       THEN \* return {}
            /\ coordinator_data' = EmptyDict
            /\ snapshotCycle' = cycle + 1
            /\ last_result' = "ok"
            /\ failed_counter' = 0
            /\ UNCHANGED <<pc, chunks, idx, data>>
       ELSE /\ data' = EmptyDict
            /\ failed_counter' = 0
            /\ chunks' = Chunks(_commands)
            /\ idx' = 1
            /\ pc' = "send"
            /\ UNCHANGED <<coordinator_data, snapshotCycle, last_result>>
    /\ UNCHANGED <<_commands, _reader, _writer, deviceUp, handleBroken,
                   pending, rx>>
    /\ UNCHANGED <<wire, op, input, output, rpc, buf, entities>>

\* raise UpdateFailed: the cycle ends without a Snapshot (the locals of the
\* call are gone, as after a return)
RaiseUpdateFailed ==
    /\ pc' = "idle"
    /\ last_result' = "UpdateFailed"
    /\ chunks' = <<>> /\ idx' = 0 /\ data' = EmptyDict /\ failed_counter' = 0
    /\ UNCHANGED <<coordinator_data, notifications, snapshotCycle>>

\* lines 75-114 once read_registers(chunk) has ended, by raising `exc` or by
\* returning `values`: the except clauses, the merge of the chunk, and after
\* the last chunk the total-failure decision and the return, on which the
\* DataUpdateCoordinator publishes the dict
AfterRead(exc, values) ==
    /\ last_exc' = IF exc = ExcNone THEN last_exc ELSE exc
    /\ UNCHANGED <<cycle, startCommands>>
    /\ IF Aborts(exc)
       THEN RaiseUpdateFailed
       ELSE LET st == Merge([data |-> data, failed |-> failed_counter],
                            chunks[idx], values)
            IN  IF idx < Len(chunks)
                THEN /\ data' = st.data
                     /\ failed_counter' = st.failed
                     /\ idx' = idx + 1
                     /\ pc' = "send"
                     /\ UNCHANGED <<chunks, coordinator_data, last_result,
                                    notifications, snapshotCycle>>
                ELSE /\ notifications' =
                           IF TotalFailure(st.failed, _commands)
                           THEN notifications + 1 ELSE notifications
                     /\ coordinator_data' = st.data
                     /\ snapshotCycle' = cycle
                     /\ last_result' = "ok"
                     /\ pc' = "idle"
                     /\ failed_counter' = st.failed
                     /\ chunks' = <<>> /\ idx' = 0 /\ data' = EmptyDict

\* variant: the requests of all chunks are written before any response is
\* read
SendRequest_Pipelined ==
    /\ pc = "send"
    /\ ~(_writer = "None" /\ ~deviceUp)
    /\ ~(_writer # "None" /\ handleBroken)
    /\ _reader' = "StreamReader"
    /\ _writer' = "StreamWriter"
    /\ handleBroken' = IF _writer = "None" THEN FALSE ELSE handleBroken
    /\ rx' = IF _writer = "None" THEN <<>> ELSE rx
    /\ pending' = <<[req |-> Request(Truncate(chunks[idx])), cycle |-> cycle]>>
    /\ requested' = requested \o Truncate(chunks[idx])
    /\ inflight' = inflight + 1
    /\ pc' = IF idx < Len(chunks) THEN "send" ELSE "recv"
    /\ idx' = IF idx < Len(chunks) THEN idx + 1 ELSE idx
    /\ UNCHANGED <<chunks, data, failed_counter, coordinator_data,
                   last_result, last_exc, notifications, cycle,
                   startCommands, responses, snapshotCycle, _commands,
                   deviceUp>>
    /\ wire' = IF _writer = "None" /\ _writer' # "None" THEN <<>> ELSE wire
    /\ UNCHANGED callVars
    /\ UNCHANGED <<receiveVars, entities>>

\* read_registers(chunk) up to the end of _send: the request is written,
\* after a lazy connect when there is no writer
SendRequest ==
    /\ pc = "send"
    /\ LET registers == Truncate(chunks[idx])
           req == Request(registers)
           mustConnect == _writer = "None"
       IN  IF (mustConnect /\ ~deviceUp) \/ (~mustConnect /\ handleBroken)
           THEN \* open_serial_connection, or write and drain, fails
                /\ AfterRead(SerialException, NoneResult)
                /\ UNCHANGED <<_reader, _writer, handleBroken, rx, pending,
                               requested, responses, inflight>>
           ELSE /\ _reader' = "StreamReader"
                /\ _writer' = "StreamWriter"
                /\ handleBroken' = IF mustConnect THEN FALSE ELSE handleBroken
                /\ rx' = IF mustConnect THEN <<>> ELSE rx
                /\ pending' = <<[req |-> req, cycle |-> cycle]>>
                /\ requested' = requested \o RequestIds(req)
                /\ inflight' = inflight + 1
                /\ pc' = "recv"
                /\ UNCHANGED <<chunks, idx, data, failed_counter,
                               coordinator_data, last_result, last_exc,
                               notifications, cycle, startCommands,
                               responses, snapshotCycle>>
    /\ UNCHANGED <<_commands, deviceUp>>
    /\ wire' = IF _writer = "None" /\ _writer' # "None" THEN <<>> ELSE wire
    /\ UNCHANGED callVars
    /\ UNCHANGED <<receiveVars, entities>>

\* the rest of read_registers(chunk) and of the loop body: _receive reads
\* the oldest buffered frame or times out, then the record walk (the reader
\* is the one the write used, so _read_byte has nothing to connect)
ReceiveResponse ==
    /\ pc = "recv"
    /\ inflight' = inflight - 1
    /\ IF handleBroken
       THEN \* reader.read fails
            /\ AfterRead(SerialException, NoneResult)
            /\ UNCHANGED <<rx, responses>>
       ELSE LET registers == Truncate(chunks[idx])
                received == IF rx = <<>> THEN NoneBytes ELSE Receive(Head(rx))
                result == ParseResponse(registers, received)
            IN  /\ rx' = IF rx = <<>> THEN rx ELSE Tail(rx)
                /\ responses' = IF received.none THEN responses
                                ELSE responses + 1
                /\ AfterRead(result.exc,
                             IF result.exc = ExcNone
                             THEN ReadResult(result.values) ELSE NoneResult)
    /\ UNCHANGED <<_commands, _reader, _writer, deviceUp, handleBroken,
                   pending, requested>>
    /\ UNCHANGED <<wire, op, input, output, rpc, buf, entities>>

\* the meter answers the request it is working on; the frame reaches the
\* reader's buffer when the line is up
MeterAnswer ==
    /\ pending # <<>>
    /\ \E kind \in ResponseKinds :
          LET p == Head(pending)
              frame == Response(kind, RequestIds(p.req), p.cycle)
          IN  rx' = IF _reader # "None" /\ ~handleBroken /\ deviceUp
                    THEN Append(rx, frame) ELSE rx
    /\ pending' = <<>>
    /\ UNCHANGED <<_commands, _reader, _writer, deviceUp, handleBroken>>
    /\ UNCHANGED cycleVars
    /\ UNCHANGED <<wire, op, input, output, rpc, buf, entities>>

\* the serial device goes away: the open handle fails from now on
LinkBreak ==
    /\ deviceUp
    /\ deviceUp' = FALSE
    /\ handleBroken' = IF _writer # "None" THEN TRUE ELSE handleBroken
    /\ UNCHANGED <<_commands, _reader, _writer, pending, rx>>
    /\ UNCHANGED cycleVars
    /\ UNCHANGED <<wire, op, input, output, rpc, buf, entities>>

\* the serial device is back
LinkRestore ==
    /\ ~deviceUp
    /\ deviceUp' = TRUE
    /\ UNCHANGED <<_commands, _reader, _writer, handleBroken, pending, rx>>
    /\ UNCHANGED cycleVars
    /\ UNCHANGED <<wire, op, input, output, rpc, buf, entities>>

Next ==
    \/ \E c \in CommandInputs : RegisterCommand(c)
    \/ \E c \in CommandInputs : UnregisterCommand(c)
    \/ Connect
    \/ StartCycle
    \/ SendRequest
    \/ ReceiveResponse
    \/ MeterAnswer
    \/ LinkBreak
    \/ LinkRestore

Spec == Init /\ [][Next]_vars

----------------------------------------------------------------------------
(* The poll cycle over a line modelled byte by byte: `wire` holds the bytes  *)
(* the meter has written and the client has not read                         *)

\* the response frame the meter writes for a payload
MeterFrame(payload) == <<64>> \o Stuff(Checksummed(payload)) \o <<13>>

\* the payload the meter reads from the bytes _send has written
MeterReads(sent) == DropLast2(Unescape(sent, 1))

\* line noise: bit k of the frame's payload is inverted (the payload is
\* what lies between the markers, bit 0 the lowest bit of its first byte)
FlipBit(frame, k) ==
    [i \in 1..Len(frame) |->
        IF i = 2 + (k \div 8) THEN Xor(frame[i], 2^(k % 8)) ELSE frame[i]]

\* what can reach the reader when the meter writes `frame`: the frame, a
\* well-formed frame that does not echo the command, the frame with one bit
\* inverted, the frame without its last bytes
WireResponses(frame) ==
    { frame,
      MeterFrame(<<CMD, SUBCMD + 1, 0>>),
      FlipBit(frame, 56),
      SubSeq(frame, 1, Len(frame) - 3) }

WireEnabledChoices ==
    { {60, 128},
      {60, 63, 80, 86, 87, 89, 74, 68, 141} }

InitWire ==
    /\ \E enabled \in WireEnabledChoices : CycleInit(Registry(enabled))
    /\ op = "none"
    /\ input = <<>>
    /\ output = <<>>

\* the meter answers the request it has read from the line
WireAnswer ==
    /\ pending # <<>>
    /\ LET p == Head(pending)
           sent == _send(p.req)
           ids == RequestIds(MeterReads(sent))
           frame == MeterFrame(<<CMD, SUBCMD>> \o Records(ids, p.cycle))
       IN  \E bytes \in WireResponses(frame) : wire' = wire \o bytes
    /\ pending' = <<>>
    /\ UNCHANGED <<_commands, _reader, _writer, deviceUp, handleBroken, rx>>
    /\ UNCHANGED cycleVars
    /\ UNCHANGED callVars
    /\ UNCHANGED <<receiveVars, entities>>

\* the rest of read_registers(chunk) and of the loop body: _receive reads
\* the buffered bytes one by one up to the end of a frame or a timeout, then
\* the record walk
ReceiveWire ==
    /\ pc = "recv"
    /\ ~handleBroken
    /\ inflight' = inflight - 1
    /\ LET registers == Truncate(chunks[idx])
           r == _receive(wire)
           result == ParseResponse(registers, r.received)
       IN  /\ wire' = r.rest
           /\ responses' = IF r.received.none THEN responses
                           ELSE responses + 1
           /\ op' = "read_registers"
           /\ input' = [registers |-> registers, stream |-> wire]
           /\ output' = result
           /\ AfterRead(result.exc,
                        IF result.exc = ExcNone
                        THEN ReadResult(result.values) ELSE NoneResult)
    /\ UNCHANGED <<_commands, _reader, _writer, deviceUp, handleBroken,
                   pending, requested, rx, rpc, buf, entities>>

NextWire ==
    \/ StartCycle
    \/ SendRequest
    \/ WireAnswer
    \/ ReceiveWire

SpecWire == InitWire /\ [][NextWire]_vars

----------------------------------------------------------------------------
(* One response frame with one bit inverted on the line, decoded by         *)
(* _receive and read_registers                                              *)

\* the responses whose bits are inverted: the registers asked for and the
\* payload the meter answers with
FlipFrames ==
    { \* register 60, value 1
      [registers |-> <<60>>, payload |-> <<CMD, SUBCMD>> \o Record(60, 1)],
      \* register 128, value 0x1A06: the frame escapes 128 and 6, and 0x1A is
      \* one bit from the escape marker
      [registers |-> <<128>>,
       payload |-> <<CMD, SUBCMD, 0, 128, 2, 2, 0, 26, 6>>],
      \* register 60, value 46884, then register 63, value 300, unit byte 12
      [registers |-> <<60, 63>>,
       payload |-> <<CMD, SUBCMD, 0, 60, 12, 4, 0, 0, 0, 183, 36,
                     0, 63, 12, 2, 0, 1, 44>>] }

\* a frame and a bit of its payload
FlipInputs ==
    UNION { LET frame == MeterFrame(f.payload)
            IN  { [registers |-> f.registers, frame |-> frame, bit |-> k] :
                  k \in 0 .. (8 * (Len(frame) - 2) - 1) } : f \in FlipFrames }

\* the byte the inverted bit lies in, as it arrives
FlippedByte(in) == FlipBit(in.frame, in.bit)[2 + (in.bit \div 8)]

InitFlip ==
    /\ CycleInit(<<>>)
    /\ op = "none"
    /\ input \in FlipInputs
    /\ output = <<>>

\* _receive and the parse of read_registers on the frame with the bit
\* inverted
DecodeFlipped ==
    /\ op = "none"
    /\ op' = "read_registers"
    /\ LET stream == FlipBit(input.frame, input.bit)
           r == _receive(stream)
       IN  output' = ParseResponse(input.registers, r.received)
    /\ UNCHANGED <<rpc, buf, entities, input, wire, _commands, _reader,
                   _writer, deviceUp, handleBroken, pending, rx>>
    /\ UNCHANGED cycleVars

NextFlip == DecodeFlipped

SpecFlip == InitFlip /\ [][NextFlip]_vars

----------------------------------------------------------------------------
(* Poll cycles over registries of every length, with a meter that is silent *)

\* the platform has added the first n entities of SENSORS: their registers
\* are registered in that order
InitChunks ==
    /\ \E n \in 0 .. Len(SENSORS) : CycleInit(SubSeq(SENSORS, 1, n))
    /\ op = "none"
    /\ input = <<>>
    /\ output = <<>>

NextChunks ==
    \/ StartCycle
    \/ SendRequest
    \/ ReceiveResponse

SpecChunks == InitChunks /\ [][NextChunks]_vars

----------------------------------------------------------------------------
(* SpecCodec: the checksum and the byte stuffing of _send, each followed by
   its inverse in _receive, on byte sequences *)

\* longest byte sequence the codec is applied to
MaxPayloadLen == 3

\* the bytes of the sequences: the reserved bytes, their complements, the
\* command bytes and the extremes
CodecBytes == {0, 6, 13, 27, 64, 128, 228, 242, 63, 16, 255}

CodecInputs == UNION { [1 .. n -> CodecBytes] : n \in 0 .. MaxPayloadLen }

InitCodec ==
    /\ CycleInit(<<>>)
    /\ op = "none"
    /\ input \in CodecInputs
    /\ output = <<>>

\* _send lines 75-77 on `input`, then the CRC test of _receive on what was
\* made
ChecksumRoundTrip ==
    /\ op = "none"
    /\ op' = "_crc"
    /\ LET msg == Checksummed(input)
       IN  output' = [crc |-> _crc(input \o <<0, 0>>), msg |-> msg,
                      recomputed |-> _crc(msg)]
    /\ UNCHANGED <<rpc, buf, entities, input, wire, _commands, _reader,
                   _writer, deviceUp, handleBroken, pending, rx>>
    /\ UNCHANGED cycleVars

\* _send lines 79-85 on `input` (no checksum added), then the frame reading
\* and the un-escaping of _receive on what was made, sent as a response
EscapeRoundTrip ==
    /\ op = "none"
    /\ op' = "escape"
    /\ LET escaped == Stuff(input)
           stream == <<64>> \o escaped \o <<13>>
           f == ReadFrame(stream, 0, 0)
       IN  output' = [data |-> escaped, stream |-> stream, buf |-> f.buf,
                      result |-> IF f.none THEN <<>> ELSE Unescape(f.buf, 1)]
    /\ UNCHANGED <<rpc, buf, entities, input, wire, _commands, _reader,
                   _writer, deviceUp, handleBroken, pending, rx>>
    /\ UNCHANGED cycleVars

NextCodec == ChecksumRoundTrip \/ EscapeRoundTrip

SpecCodec == InitCodec /\ [][NextCodec]_vars

----------------------------------------------------------------------------
(* SpecDecode: _decode_value on records *)

\* most mantissa bytes of a record, and the largest exponent magnitude
MaxMantissaLen == 3
MaxExponent == 3

MantissaBytes == {0, 1, 44, 255}

\* mantissas of up to MaxMantissaLen bytes; the bytes before the last two
\* are zero, which keeps mantissa * 10^MaxExponent a 32-bit integer
MantissaInputs ==
    { m \in UNION { [1 .. n -> MantissaBytes] : n \in 0 .. MaxMantissaLen } :
        \A i \in 1 .. Len(m) - 2 : m[i] = 0 }

\* exponent bytes: bit 7, bit 6 and a magnitude
ExponentBytes ==
    { 128 * s + 64 * e + mag : s \in {0, 1}, e \in {0, 1},
                               mag \in 0 .. MaxExponent }

\* records [id_hi][id_lo][unit][length][exponent][mantissa] of register 60
DecodeInputs ==
    { <<0, 60, 2, Len(m), x>> \o m : m \in MantissaInputs,
                                     x \in ExponentBytes }

InitDecode ==
    /\ CycleInit(<<>>)
    /\ op = "none"
    /\ input \in DecodeInputs
    /\ output = <<>>

\* _decode_value(input)
Decode ==
    /\ op = "none"
    /\ op' = "_decode_value"
    /\ output' = DecodeValue(input)
    /\ UNCHANGED <<rpc, buf, entities, input, wire, _commands, _reader,
                   _writer, deviceUp, handleBroken, pending, rx>>
    /\ UNCHANGED cycleVars

NextDecode == Decode

SpecDecode == InitDecode /\ [][NextDecode]_vars

----------------------------------------------------------------------------
(* SpecLink: connect, disconnect, _write and _read_byte called one after
   the other on one client, while the serial device comes and goes.
   `input` is the link the call found, `output` what the call did: the
   number of open handles after it, whether it opened the device, and what
   it returned or raised *)

\* calls made on the client in one behaviour
MaxCalls == 4

\* variant: connect opens the device whatever the fields hold
connect_Always(reader, writer, up) ==
    IF up
    THEN [_reader |-> "StreamReader", _writer |-> "StreamWriter",
          opened |-> TRUE, exc |-> ExcNone]
    ELSE [_reader |-> reader, _writer |-> writer,
          opened |-> FALSE, exc |-> SerialException]

\* connect(): the fields after it, whether open_serial_connection was
\* called with success, and what was raised
connect(reader, writer, up) ==
    IF reader = "None" \/ writer = "None"
    THEN IF up
         THEN [_reader |-> "StreamReader", _writer |-> "StreamWriter",
               opened |-> TRUE, exc |-> ExcNone]
         ELSE [_reader |-> reader, _writer |-> writer,
               opened |-> FALSE, exc |-> SerialException]
    ELSE [_reader |-> reader, _writer |-> writer,
          opened |-> FALSE, exc |-> ExcNone]

\* the link as a call finds it
LinkFound == [_reader |-> _reader, _writer |-> _writer,
              handles |-> output.handles]

\* the record of a call
Did(handles, opened, result) ==
    [handles |-> handles, calls |-> output.calls + 1, opened |-> opened,
     result |-> result]

InitLink ==
    /\ CycleInit(<<>>)
    /\ op = "none"
    /\ input = [_reader |-> "None", _writer |-> "None", handles |-> 0]
    /\ output = [handles |-> 0, calls |-> 0, opened |-> FALSE,
                 result |-> "None"]

linkFrame ==
    /\ UNCHANGED <<_commands, deviceUp, pending, rx, wire, rpc, buf,
                   entities>>
    /\ UNCHANGED cycleVars

CallConnect ==
    /\ output.calls < MaxCalls
    /\ op' = "connect"
    /\ input' = LinkFound
    /\ LET c == connect(_reader, _writer, deviceUp)
       IN  /\ _reader' = c._reader
           /\ _writer' = c._writer
           /\ handleBroken' = IF c.opened THEN FALSE ELSE handleBroken
           /\ output' = Did(IF c.opened THEN output.handles + 1
                            ELSE output.handles, c.opened, c.exc)
    /\ linkFrame

\* disconnect(): the writer, when there is one, is closed; both fields are
\* None afterwards
CallDisconnect ==
    /\ output.calls < MaxCalls
    /\ op' = "disconnect"
    /\ input' = LinkFound
    /\ _reader' = "None"
    /\ _writer' = "None"
    /\ handleBroken' = FALSE
    /\ output' = Did(IF _writer # "None" THEN output.handles - 1
                     ELSE output.handles, FALSE, ExcNone)
    /\ linkFrame

\* _write(data): connect() when there is no writer, then write and drain
CallWrite ==
    /\ output.calls < MaxCalls
    /\ op' = "_write"
    /\ input' = LinkFound
    /\ LET c == IF _writer = "None" THEN connect(_reader, _writer, deviceUp)
                ELSE [_reader |-> _reader, _writer |-> _writer,
                      opened |-> FALSE, exc |-> ExcNone]
           broken == IF c.opened THEN FALSE ELSE handleBroken
           handles == IF c.opened THEN output.handles + 1
                      ELSE output.handles
       IN  /\ _reader' = c._reader
           /\ _writer' = c._writer
           /\ handleBroken' = broken
           /\ output' = Did(handles, c.opened,
                            IF c.exc # ExcNone THEN c.exc
                            ELSE IF broken THEN SerialException
                            ELSE "written")
    /\ linkFrame

\* _read_byte(): connect() when there is no reader, then one byte, or None
\* on a timeout or a read of no byte
CallReadByte ==
    /\ output.calls < MaxCalls
    /\ op' = "_read_byte"
    /\ input' = LinkFound
    /\ LET c == IF _reader = "None" THEN connect(_reader, _writer, deviceUp)
                ELSE [_reader |-> _reader, _writer |-> _writer,
                      opened |-> FALSE, exc |-> ExcNone]
           broken == IF c.opened THEN FALSE ELSE handleBroken
           handles == IF c.opened THEN output.handles + 1
                      ELSE output.handles
       IN  /\ _reader' = c._reader
           /\ _writer' = c._writer
           /\ handleBroken' = broken
           /\ \E b \in {"None", "byte"} :
                 output' = Did(handles, c.opened,
                               IF c.exc # ExcNone THEN c.exc
                               ELSE IF broken THEN SerialException
                               ELSE b)
    /\ linkFrame

NextLink ==
    \/ CallConnect
    \/ CallDisconnect
    \/ CallWrite
    \/ CallReadByte
    \/ LinkBreak
    \/ LinkRestore

SpecLink == InitLink /\ [][NextLink]_vars

----------------------------------------------------------------------------
(* SpecReceive: the loop of _receive, one _read_byte at a time, on whatever
   the line delivers.  `input` is the sequence of bytes read so far, `output`
   what _receive came to: no response, or the closed buffer and what is
   returned for it.  SpecReceiveLive is the same loop for as long as the
   line goes on delivering: there `input` is the byte read last *)

\* bytes read by one _receive (SpecReceive), bytes a buffer holds
\* (SpecReceiveLive)
MaxRead == 5

\* the bytes the line delivers: the markers, an escape marker and others
LineBytes == {64, 13, 27, 63, 16, 0}

\* variant: a start marker only begins a buffer, it does not restart one
ReceiveStep_NoRestart(buffer, b) ==
    LET started == IF b = 64 /\ buffer.none THEN Bytes(<<>>) ELSE buffer
    IN  IF started.none THEN [buf |-> started, closed |-> FALSE]
        ELSE [buf |-> Bytes(Append(started.bytes, b)), closed |-> b = 13]

\* lines 95-100 for a byte b that _read_byte returned: `buf` afterwards,
\* and whether the loop is left
ReceiveStep(buffer, b) ==
    LET started == IF b = 64 THEN Bytes(<<>>) ELSE buffer
    IN  IF started.none THEN [buf |-> started, closed |-> FALSE]
        ELSE [buf |-> Bytes(Append(started.bytes, b)), closed |-> b = 13]

receiveFrame ==
    /\ UNCHANGED <<_commands, _reader, _writer, deviceUp, handleBroken,
                   pending, rx, wire, entities>>
    /\ UNCHANGED cycleVars

InitReceive ==
    /\ CycleInit(<<>>)
    /\ op = "none"
    /\ input = <<>>
    /\ output = <<>>

\* read_registers has sent its request (the link is open) and calls
\* _receive: buf = None
EnterReceive ==
    /\ rpc = "idle"
    /\ rpc' = "read"
    /\ buf' = NoneBytes
    /\ _reader' = "StreamReader"
    /\ _writer' = "StreamWriter"
    /\ UNCHANGED <<_commands, deviceUp, handleBroken, pending, rx, wire,
                   entities>>
    /\ UNCHANGED cycleVars
    /\ UNCHANGED callVars

\* _read_byte returns b: lines 95-100, and after the break lines 102-115;
\* `read` is what `input` becomes
ReadByteAs(b, read) ==
    /\ rpc = "read"
    /\ input' = read
    /\ LET s == ReceiveStep(buf, b)
       IN  /\ buf' = s.buf
           /\ IF s.closed
              THEN /\ rpc' = "done"
                   /\ op' = "_receive"
                   /\ output' = [none |-> FALSE, buf |-> s.buf.bytes,
                                 result |-> Unescape(s.buf.bytes, 1),
                                 received |-> ReceiveFrame(s.buf.bytes)]
              ELSE UNCHANGED <<rpc, op, output>>
    /\ receiveFrame

ReadByte ==
    \E b \in LineBytes :
        /\ Len(input) < MaxRead
        /\ ReadByteAs(b, Append(input, b))

\* _read_byte returns None (timeout, or a read of no byte): return None
ReadTimeout ==
    /\ rpc = "read"
    /\ rpc' = "done"
    /\ op' = "_receive"
    /\ output' = [none |-> TRUE, buf |-> <<>>, result |-> <<>>,
                  received |-> NoneBytes]
    /\ UNCHANGED <<buf, input>>
    /\ receiveFrame

NextReceive == EnterReceive \/ ReadByte \/ ReadTimeout

SpecReceive == InitReceive /\ [][NextReceive]_vars

\* the line delivers a byte however many were read before, as long as the
\* buffer it goes to holds no more than MaxRead bytes
ReadByteLive ==
    \E b \in LineBytes :
        /\ LET s == ReceiveStep(buf, b)
           IN  s.buf.none \/ Len(s.buf.bytes) <= MaxRead
        /\ ReadByteAs(b, <<b>>)

NextReceiveLive == EnterReceive \/ ReadByteLive \/ ReadTimeout

\* the loop goes on: every _read_byte returns, with a byte or after
\* `timeout` seconds with None; which of the two is the line's choice
SpecReceiveLive ==
    InitReceive /\ [][NextReceiveLive]_vars /\ WF_vars(NextReceiveLive)

----------------------------------------------------------------------------
(* SpecWalk: read_registers after _receive, on payloads made of whole
   records.  `input` is the request order, the records of the response and
   the payload they make *)

\* most records of a response
MaxRecords == 2

WalkRegisters == { <<60>>, <<60, 68>>, <<60, 68, 74>> }

\* records of a response: a register and its mantissa bytes (unit byte 2,
\* exponent byte 0)
RecordChoices ==
    { [id |-> id, mantissa |-> m] : id \in {60, 68, 74},
                                    m \in {<<>>, <<7>>} }

\* [id_hi][id_lo][unit][length][exponent][mantissa bytes]
RecordBytes(rec) ==
    <<rec.id \div 256, rec.id % 256, 2, Len(rec.mantissa), 0>>
    \o rec.mantissa

RECURSIVE PayloadOf(_)
PayloadOf(records) ==
    IF records = <<>> THEN <<>>
    ELSE RecordBytes(Head(records)) \o PayloadOf(Tail(records))

WalkInputs ==
    { [registers |-> regs, records |-> recs,
       payload |-> <<CMD, SUBCMD>> \o PayloadOf(recs)] :
        regs \in WalkRegisters,
        recs \in UNION { [1 .. n -> RecordChoices] : n \in 0 .. MaxRecords } }

InitWalk ==
    /\ CycleInit(<<>>)
    /\ op = "none"
    /\ input \in WalkInputs
    /\ output = <<>>

\* read_registers(registers) from line 140 on, _receive having returned the
\* payload
WalkRecords ==
    /\ op = "none"
    /\ op' = "read_registers"
    /\ output' = ParseResponse(input.registers, Bytes(input.payload))
    /\ UNCHANGED <<rpc, buf, entities, input, wire, _commands, _reader,
                   _writer, deviceUp, handleBroken, pending, rx>>
    /\ UNCHANGED cycleVars

NextWalk == WalkRecords

SpecWalk == InitWalk /\ [][NextWalk]_vars

----------------------------------------------------------------------------
(* SpecEntities: sensor entities are added to hass and removed from it
   while the coordinator polls; each registers its register when added and
   unregisters it when removed *)

\* the entity of the heat-energy sensor, of the volume sensor, and the gas
\* sensor, which reads the heat-energy register
EntityChoices ==
    { [kind |-> "KamstrupSensor", register |-> 60],
      [kind |-> "KamstrupSensor", register |-> 68],
      [kind |-> "KamstrupGasSensor", register |-> HEAT_ENERGY_REGISTER] }

InitEntities ==
    /\ CycleInit(<<>>)
    /\ op = "none"
    /\ input = <<>>
    /\ output = <<>>

entityFrame ==
    /\ UNCHANGED <<_reader, _writer, deviceUp, handleBroken, pending, rx>>
    /\ UNCHANGED cycleVars
    /\ UNCHANGED <<wire, op, input, output, rpc, buf>>

\* async_added_to_hass of KamstrupSensor and of KamstrupGasSensor
AddedToHass(e) ==
    /\ e \notin entities
    /\ entities' = entities \cup {e}
    /\ _commands' = register_command(_commands, e.register)
    /\ entityFrame

\* async_will_remove_from_hass of KamstrupSensor and of KamstrupGasSensor
WillRemoveFromHass(e) ==
    /\ e \in entities
    /\ entities' = entities \ {e}
    /\ _commands' = unregister_command(_commands, e.register)
    /\ entityFrame

NextEntities ==
    \/ \E e \in EntityChoices : AddedToHass(e)
    \/ \E e \in EntityChoices : WillRemoveFromHass(e)
    \/ StartCycle
    \/ SendRequest
    \/ ReceiveResponse
    \/ MeterAnswer

SpecEntities == InitEntities /\ [][NextEntities]_vars

----------------------------------------------------------------------------
(* Properties of the poll cycle *)

\* the last cycle has returned and its dict is the published Snapshot
Completed ==
    pc = "idle" /\ cycle > 0 /\ last_result = "ok" /\ snapshotCycle = cycle

Absent(snapshot) == {r \in DOMAIN snapshot : snapshot[r].value = NoneValue}

Present(snapshot) == DOMAIN snapshot \ Absent(snapshot)

Count(seq, x) == Cardinality({i \in 1..Len(seq) : seq[i] = x})

\* C1: a cycle works on the registry as it was at its start: the registers
\* it requests, the keys of its Snapshot and its total-failure decision are
\* those of the start registry, whatever register_command or
\* unregister_command calls ran at its await points.
C1_CycleUsesStartRegistry ==
    (Completed /\ startCommands # <<>>) =>
        /\ requested = startCommands
        /\ DOMAIN coordinator_data = Range(startCommands)
        /\ (notifications = 1) <=> TotalFailure(failed_counter, startCommands)

\* C2: when a cycle over a non-empty registry completes, the notification
\* is created exactly when the number of Snapshot entries with an absent
\* value equals the number of registered RegisterIds (stated for the cycles
\* that end with the registry they started with, where "registered" has one
\* meaning).
C2_TotalFailureIffAllAbsent ==
    [][(pc = "recv" /\ pc' = "idle" /\ last_result' = "ok"
                     /\ _commands' = startCommands') =>
          ((notifications' = 1) <=>
           (Cardinality(Absent(coordinator_data')) = Len(_commands')))]_vars

\* C3: a completed cycle in which no exchange got a response publishes
\* every register of the cycle with absent value and absent unit and
\* creates the notification exactly once.
C3_AllAbsentCycle ==
    (Completed /\ startCommands # <<>> /\ responses = 0) =>
        /\ DOMAIN coordinator_data = Range(startCommands)
        /\ \A r \in DOMAIN coordinator_data :
              coordinator_data[r] = Entry(NoneValue, NoneUnit)
        /\ notifications = 1

\* C4: only a connection failure makes a cycle end in UpdateFailed; a cycle
\* in which read_registers raised anything else still publishes.
C4_OnlyConnectionFailureAborts ==
    (pc = "idle" /\ last_result = "UpdateFailed") =>
        last_exc = SerialException

\* C5: after a cycle has failed with a connection failure the link is
\* closed (no reader, no writer), so that the next write connects first.
C5_LinkClosedAfterFailure ==
    (pc = "idle" /\ last_result = "UpdateFailed"
                 /\ last_exc = SerialException) =>
        (_writer = "None" /\ _reader = "None")

\* C6: once read_registers has raised a connection failure the cycle is
\* over: it ended in UpdateFailed, it published no Snapshot, and nothing is
\* in flight or being sent for it.
C6_ConnectionFailureAborts ==
    last_exc = SerialException =>
        /\ pc = "idle"
        /\ last_result = "UpdateFailed"
        /\ snapshotCycle # cycle
        /\ inflight = 0

C6_Witness ==
    /\ last_exc = SerialException
    /\ Len(startCommands) > MULTIPLE_REGISTERS_MAX
    /\ Len(requested) = MULTIPLE_REGISTERS_MAX
    /\ snapshotCycle > 0

\* C7: the keys of the Snapshot a completed cycle publishes are exactly the
\* RegisterIds registered when the cycle started.
C7_SnapshotKeys ==
    Completed => DOMAIN coordinator_data = Range(startCommands)

C7_Witness ==
    /\ Completed
    /\ Len(startCommands) > MULTIPLE_REGISTERS_MAX
    /\ Absent(coordinator_data) # {}
    /\ Present(coordinator_data) # {}
    /\ responses = 1

C10_PolledEveryCycle ==
    Completed =>
        \A id \in Range(startCommands) : Count(requested, id) = 1

C10_Witness ==
    /\ Completed
    /\ cycle = 2
    /\ Len(startCommands) > MULTIPLE_REGISTERS_MAX
    /\ startCommands[Len(startCommands)] = HEAT_ENERGY_REGISTER

----------------------------------------------------------------------------
(* Properties of the exchange, byte by byte *)

\* _read_byte returned None before a frame from 0x40 to 0x0D was read
TimedOut(stream) == ReadFrame(stream, 0, 0).none

\* a frame was read and its un-escaped bytes do not recompute to CRC zero
CrcFails(stream) ==
    LET f == ReadFrame(stream, 0, 0)
    IN  ~f.none /\ _crc(Unescape(f.buf, 1)) # 0

\* a frame was read, passes the CRC check and does not begin with 3F 10
WrongEcho(stream) ==
    LET f == ReadFrame(stream, 0, 0)
        result == Unescape(f.buf, 1)
    IN  /\ ~f.none
        /\ _crc(result) = 0
        /\ \/ Len(result) < 4
           \/ result[1] # CMD
           \/ result[2] # SUBCMD

\* C11: an exchange that ends by a byte-read timeout, by a frame failing the
\* CRC check or by a frame that does not echo 3F 10 raises nothing: every
\* register of its chunk gets an absent entry and the cycle goes on, to the
\* next chunk when there is one and to its Snapshot otherwise.
C11_NoResponseIsNotAnError ==
    [][(pc = "recv" /\ pc' # "recv"
          /\ (TimedOut(wire) \/ CrcFails(wire) \/ WrongEcho(wire))) =>
        /\ output' = [exc |-> ExcNone, values |-> EmptyDict]
        /\ last_exc' = ExcNone
        /\ last_result' # "UpdateFailed"
        /\ LET dict == IF idx < Len(chunks) THEN data' ELSE coordinator_data'
           IN  \A reg \in Range(chunks[idx]) :
                  /\ reg \in DOMAIN dict
                  /\ dict[reg] = Entry(NoneValue, NoneUnit)
        /\ IF idx < Len(chunks)
           THEN pc' = "send" /\ idx' = idx + 1
           ELSE pc' = "idle" /\ last_result' = "ok"
                /\ snapshotCycle' = cycle]_vars

C11_Witness ==
    /\ pc = "send" /\ idx = 2
    /\ op = "read_registers"
    /\ input.registers = chunks[1]
    /\ CrcFails(input.stream)
    /\ DOMAIN data = Range(chunks[1])
    /\ \A reg \in DOMAIN data : data[reg] = Entry(NoneValue, NoneUnit)

\* C12: read_registers returns an entry for a register only when the frame
\* _receive read passed the CRC check; a frame whose un-escaped bytes do not
\* recompute to zero yields nothing.
C12_NoValueWithoutCrc ==
    (op = "read_registers" /\ output.values # EmptyDict) =>
        LET f == ReadFrame(input.stream, 0, 0)
        IN  ~f.none /\ _crc(Unescape(f.buf, 1)) = 0

C12_Witness ==
    /\ op = "read_registers"
    /\ CrcFails(input.stream)
    /\ output.values = EmptyDict

\* C13 as stated: whichever bit of the payload of a valid response frame is
\* inverted, the decode reports no response (and so no value that differs
\* from the original), also when the inverted bit makes the byte a start,
\* end or escape marker.
C13_FlippedBitRejected ==
    op = "read_registers" =>
        output = [exc |-> ExcNone, values |-> EmptyDict]

\* C13, amended: the decode reports no response whenever the inverted bit
\* does not turn its byte into the end marker 0x0D or the start marker 0x40
\* (bits that make or unmake an escape marker included).
C13_FlippedBitRejectedInFrame ==
    (op = "read_registers" /\ FlippedByte(input) \notin {13, 64}) =>
        output = [exc |-> ExcNone, values |-> EmptyDict]

C13_Witness ==
    /\ op = "read_registers"
    /\ input.registers = <<128>>
    /\ FlippedByte(input) = 27
    /\ output = [exc |-> ExcNone, values |-> EmptyDict]

----------------------------------------------------------------------------
(* Properties of the registry and of the cycle's chunks *)

NoDuplicates(seq) == \A i, j \in 1..Len(seq) : seq[i] = seq[j] => i = j

\* C14: the registry never holds a RegisterId twice, whatever calls were
\* made; on the registry of every reachable state, and for every register of
\* SENSORS, register_command of a registered id and unregister_command of
\* an unregistered id return the registry as it is, a second call of either
\* changes nothing after the first, and neither makes a duplicate.
C14_RegistryIsASet ==
    /\ NoDuplicates(_commands)
    /\ \A c \in Range(SENSORS) :
          LET added == register_command(_commands, c)
              removed == unregister_command(_commands, c)
          IN  /\ Contains(_commands, c) => added = _commands
              /\ ~Contains(_commands, c) => removed = _commands
              /\ register_command(added, c) = added
              /\ unregister_command(removed, c) = removed
              /\ NoDuplicates(added)
              /\ NoDuplicates(removed)
              /\ Contains(added, c)
              /\ ~Contains(removed, c)

C14_Witness ==
    /\ _commands = <<68, HEAT_ENERGY_REGISTER>>
    /\ cycle > 0

RECURSIVE Concat(_)
Concat(seqs) ==
    IF seqs = <<>> THEN <<>> ELSE Head(seqs) \o Concat(Tail(seqs))

\* C15: the chunks of a running cycle are consecutive slices of the start
\* registry, in order (their concatenation is the registry), of 1 to 8 ids,
\* of sizes 8, 8, 4 for 20 ids; the request being answered carries the ids
\* of its chunk, at most 8; and a cycle that completes has requested every
\* id of the registry, in order, none being cut off by read_registers.
C15_ChunksPartitionRegistry ==
    /\ pc # "idle" =>
          /\ Concat(chunks) = startCommands
          /\ \A i \in 1..Len(chunks) : Len(chunks[i]) \in 1..8
          /\ \A i \in 1..(Len(chunks) - 1) : Len(chunks[i]) = 8
          /\ Len(startCommands) = 20 =>
                [i \in 1..Len(chunks) |-> Len(chunks[i])] = <<8, 8, 4>>
    /\ (pc = "recv" /\ pending # <<>>) =>
          /\ Head(pending).req[3] <= 8
          /\ RequestIds(Head(pending).req) = chunks[idx]
    /\ Completed => requested = startCommands

C15_Witness ==
    /\ pc = "recv"
    /\ Len(startCommands) = 20
    /\ idx = 3
    /\ pending # <<>>
    /\ RequestIds(Head(pending).req) = SubSeq(SENSORS, 17, 20)

-----------------------------------------------------------------------------
(* Properties of a cycle over an empty registry *)

\* C16: a poll cycle that starts with an empty registry publishes an empty
\* Snapshot in the step that starts it; that step leaves the serial link as
\* it was (no connection opened, nothing written, nothing taken from the
\* reader), no request is written and no response read for that cycle, and
\* no total-failure notification is created.
C16_EmptyRegistrySkipsIO ==
    [][(cycle' > 0 /\ startCommands' = <<>>) =>
          /\ pc' = "idle"
          /\ last_result' = "ok"
          /\ snapshotCycle' = cycle'
          /\ coordinator_data' = EmptyDict
          /\ notifications' = 0
          /\ last_exc' = ExcNone
          /\ requested' = <<>>
          /\ responses' = 0
          /\ inflight' = 0
          /\ cycle' # cycle =>
                /\ _commands = <<>>
                /\ UNCHANGED <<_reader, _writer, pending, rx, wire,
                               handleBroken, deviceUp>>]_vars

C16_Witness ==
    /\ cycle = 2 /\ startCommands = <<>> /\ Completed
    /\ coordinator_data = EmptyDict /\ _writer = "None"

-----------------------------------------------------------------------------
(* Properties of the codec *)

\* C17: the checksum that _send writes, high byte first, after a payload
\* makes the CRC that _receive recomputes over payload and checksum zero;
\* the checksum is a 16-bit number and its two bytes are bytes.
C17_CrcRoundTrip ==
    op = "_crc" =>
        /\ output.recomputed = 0
        /\ output.crc \in 0 .. 65535
        /\ Len(output.msg) = Len(input) + 2
        /\ SubSeq(output.msg, 1, Len(input)) = input
        /\ output.msg[Len(input) + 1] = output.crc \div 256
        /\ output.msg[Len(input) + 2] = output.crc % 256
        /\ \A i \in 1 .. Len(output.msg) : output.msg[i] \in 0 .. 255

C17_Witness ==
    /\ op = "_crc" /\ input = <<63, 16, 0>>
    /\ output.crc > 255 /\ output.crc % 256 # output.crc \div 256
    /\ output.recomputed = 0

\* C18: the un-escaping of _receive gives back every byte sequence that
\* the byte stuffing of _send has escaped; the escaped sequence holds no
\* byte 0x40 and no byte 0x0D, so that _receive reads the frame to its own
\* end marker, and every 0x1B in it is followed by the complement of a
\* reserved byte.
C18_EscapeRoundTrip ==
    op = "escape" =>
        /\ output.result = input
        /\ output.buf = output.stream
        /\ \A i \in 1 .. Len(output.data) :
              /\ output.data[i] \notin {64, 13}
              /\ output.data[i] = 27 =>
                    /\ i < Len(output.data)
                    /\ Xor(output.data[i + 1], 255) \in ESCAPES

C18_Witness ==
    /\ op = "escape" /\ input = <<27, 13, 64>>
    /\ output.data = <<27, 228, 27, 242, 27, 191>>
    /\ output.result = <<27, 13, 64>>

-----------------------------------------------------------------------------
(* Properties of the decoding of records *)

\* the payload has the header of a register read and starts with a record
\* of `reg` that declares more mantissa bytes than the payload carries
OverlongRecord(reg, payload) ==
    /\ Len(payload) >= 8
    /\ payload[1] = CMD /\ payload[2] = SUBCMD
    /\ payload[3] = reg \div 256 /\ payload[4] = reg % 256
    /\ 5 + payload[6] > Len(payload) - 2

\* C19: when the response read for a chunk passes the CRC and the header
\* test and its record of the chunk's first register declares more mantissa
\* bytes than remain, read_registers raises nothing, the cycle does not end
\* in UpdateFailed, and the register is absent in the dict of the cycle.
C19_UndecodableIsAbsent ==
    [][(/\ pc = "recv" /\ pc' # "recv"
        /\ ~handleBroken /\ rx # <<>> /\ Head(rx).crcOk
        /\ OverlongRecord(chunks[idx][1], Head(rx).payload)) =>
          LET reg == chunks[idx][1]
              dict == IF pc' = "idle" THEN coordinator_data' ELSE data'
          IN  /\ last_exc' = ExcNone
              /\ last_result' # "UpdateFailed"
              /\ reg \in DOMAIN dict
              /\ dict[reg] = Entry(NoneValue, NoneUnit)]_vars

\* bit k of byte b
Bit(b, k) == (b \div (2 ^ k)) % 2

\* the unsigned big-endian integer of a byte sequence: digit i weighs
\* 256^(n - i)
RECURSIVE BigEndianUpTo(_, _)
BigEndianUpTo(bytes, i) ==
    IF i = 0 THEN 0
    ELSE bytes[i] * (256 ^ (Len(bytes) - i)) + BigEndianUpTo(bytes, i - 1)

BigEndian(bytes) == BigEndianUpTo(bytes, Len(bytes))

-----------------------------------------------------------------------------
(* Properties of the link *)

\* the link of a record: both fields set, or both None
IsOpen(link) == link._reader # "None" /\ link._writer # "None"
IsClosed(link) == link._reader = "None" /\ link._writer = "None"

-----------------------------------------------------------------------------
(* Properties of _receive *)

\* C22: _receive, once called, returns: with a closed frame or with no
\* response, whatever the line delivers and for however long.
C22_ReceiveTerminates == <>(rpc = "done")

\* the place of the last start marker among the bytes read, 0 when there
\* is none
LastStart(read) ==
    IF \E i \in 1 .. Len(read) : read[i] = 64
    THEN CHOOSE i \in 1 .. Len(read) :
            /\ read[i] = 64
            /\ \A j \in (i + 1) .. Len(read) : read[j] # 64
    ELSE 0

\* C23: while _receive reads, nothing is buffered before a start marker
\* has been read, and afterwards the buffer is what was read from the last
\* start marker on, which holds no end marker; _receive closes a frame
\* exactly on the first end marker read after a start marker, and what it
\* un-escapes is what was read after the last start marker and before
\* that end marker.
C23_FrameDelimiting ==
    LET start == LastStart(input)
        inner == SubSeq(input, start + 1, Len(input) - 1)
    IN  /\ (rpc = "read" /\ start = 0) => buf.none
        /\ (rpc = "read" /\ start > 0) =>
              /\ buf = Bytes(SubSeq(input, start, Len(input)))
              /\ \A i \in start .. Len(input) : input[i] # 13
        /\ (rpc = "done" /\ ~output.none) =>
              /\ start > 0
              /\ input[Len(input)] = 13
              /\ \A i \in start .. Len(input) - 1 : input[i] # 13
              /\ output.buf = <<64>> \o inner \o <<13>>
              /\ (\A i \in 1 .. Len(inner) : inner[i] # 27) =>
                    output.result = inner
        /\ (rpc = "done" /\ output.none) =>
              \/ start = 0
              \/ \A i \in start .. Len(input) : input[i] # 13

C23_Witness ==
    /\ rpc = "done" /\ input = <<63, 64, 64, 16, 13>>
    /\ output.buf = <<64, 16, 13>> /\ output.result = <<16>>

-----------------------------------------------------------------------------
(* Properties of the record walk *)

\* the registers that find their record when the records are taken in
\* request order, each with the record found
RECURSIVE Matched(_, _)
Matched(registers, records) ==
    IF registers = <<>> \/ records = <<>> THEN EmptyDict
    ELSE IF Head(records).id = Head(registers)
         THEN PutItem(Matched(Tail(registers), Tail(records)),
                      Head(registers), Head(records))
         ELSE Matched(Tail(registers), records)

\* C24: read_registers gives every requested register whose record is met
\* in request order the value of that record, be its mantissa empty or the
\* record the last of the payload, and every other requested register no
\* value (no entry, or the entry (None, None)).
C24_RecordWalk ==
    op = "read_registers" =>
        LET matched == Matched(input.registers, input.records)
            values == output.values
        IN  /\ output.exc = ExcNone
            /\ DOMAIN values \subseteq Range(input.registers)
            /\ \A reg \in Range(input.registers) :
                  IF reg \in DOMAIN matched
                  THEN /\ reg \in DOMAIN values
                       /\ values[reg] =
                             <<Float(BigEndian(matched[reg].mantissa), 1),
                               UnitTag(2)>>
                  ELSE \/ reg \notin DOMAIN values
                       \/ values[reg] = <<NoneValue, NoneUnit>>

-----------------------------------------------------------------------------
(* Properties of the entities *)

\* C25: the register of every entity that is added to hass is in the
\* registry, so that the cycles poll it; with the heat-energy sensor and
\* the gas sensor both added, removing one leaves register 60 registered.
C25_SharedRegisterStaysRegistered ==
    \A e \in entities : Contains(_commands, e.register)

-----------------------------------------------------------------------------
(* Properties of the attribution of values *)

\* the records of a payload after its header, each with the RegisterId of
\* its two id bytes and the entry its bytes decode to
RECURSIVE RecordsIn(_)
RecordsIn(remaining) ==
    IF Len(remaining) < 5 \/ Len(remaining) < 5 + remaining[4] THEN <<>>
    ELSE <<[id |-> remaining[1] * 256 + remaining[2],
            entry |-> Entry(DecodeValue(remaining)[1],
                            DecodeValue(remaining)[2])]>>
         \o RecordsIn(Drop(remaining, 5 + remaining[4]))

\* C26: the dict of a cycle gains values only in the step that reads a
\* response, and a register that gains a value there is a register of the
\* request written for that exchange and has the entry decoded from a
\* record of the frame read whose id bytes are its RegisterId; the
\* published Snapshot only changes to the dict of the cycle.
C26_ValueFromOwnRecord ==
    [][LET reads == pc = "recv" /\ pc' # "recv"
           after == IF reads /\ pc' = "idle" /\ last_result' = "ok"
                    THEN coordinator_data' ELSE data'
           gained == Present(after) \ Present(data)
           chunk == Truncate(chunks[idx])
       IN  /\ ~reads => /\ Present(data') \subseteq Present(data)
                        /\ \/ coordinator_data' = coordinator_data
                           \/ coordinator_data' = EmptyDict
           /\ (reads /\ gained # {}) =>
                 /\ rx # <<>> /\ Head(rx).crcOk
                 /\ Len(requested) >= Len(chunk)
                 /\ SubSeq(requested, Len(requested) - Len(chunk) + 1,
                           Len(requested)) = chunk
                 /\ \A r \in gained :
                       /\ r \in Range(chunk)
                       /\ \E rec \in Range(RecordsIn(
                                          Drop(Head(rx).payload, 2))) :
                             rec.id = r /\ rec.entry = after[r]
           /\ reads => \A r \in Present(data) \cap DOMAIN after :
                          after[r] = data[r]]_vars

C26_Witness ==
    /\ Completed /\ startCommands = <<60, 68>>
    /\ coordinator_data[60] = Entry(NoneValue, NoneUnit)
    /\ coordinator_data[68] = Entry(Float(cycle, 1), UnitTag(2))

====
